---- MODULE Spec2Model ----
(***************************************************************************)
(* Model of Backend/app.py (the HTTP API: availability check, suggestion   *)
(* generator, alternative-suggestion flow, /notify insert) and of          *)
(* Backend/notifier.py (the notification poller).                          *)
(*                                                                         *)
(* Python strings are sequences of one-character strings, so that strip(), *)
(* lower(), re.sub() and re.match() are computed character by character.   *)
(***************************************************************************)
EXTENDS Integers, Sequences, FiniteSets, Bags, TLC

VARIABLES
    table,          \* domain_notifications: committed rows, row id = position
    req,            \* /notify: the JSON body of the request being handled
    resp,           \* /notify: the last HTTP response
    pc,             \* notifier.py: position of the poller process
    records,        \* check_and_notify: rows fetched by the SELECT of this cycle
    idx,            \* check_and_notify: position of the for loop in records
    available,      \* check_and_notify: the checker's answer for the current record
    success,        \* check_and_notify: what send_email_notification returned
    txn,            \* check_and_notify: ids UPDATEd on conn and not yet committed
    log,            \* check_and_notify: what the poller printed per row this cycle
    sent,           \* emails delivered by the SMTP server, per row id
    cycles,         \* calls of check_and_notify made so far
    chk,            \* one upstream response given to both availability checkers
    gen,            \* generate_domain_ideas: locals and return value
    alt             \* suggest_alternatives: locals and return value

vars == <<table, req, resp, pc, records, idx, available, success, txn, log, sent, cycles, chk, gen, alt>>

notifyVars == <<table, req, resp>>
pollerVars == <<pc, records, idx, available, success, txn, log, sent, cycles>>

----------------------------------------------------------------------------
(* Bounds of the model *)

MaxRows == 2
MaxCycles == 2
MaxLimit == 2

----------------------------------------------------------------------------
(* Python string operations *)

UpperChars ==
    <<"A","B","C","D","E","F","G","H","I","J","K","L","M",
      "N","O","P","Q","R","S","T","U","V","W","X","Y","Z">>

LowerChars ==
    <<"a","b","c","d","e","f","g","h","i","j","k","l","m",
      "n","o","p","q","r","s","t","u","v","w","x","y","z">>

Digits == {"0","1","2","3","4","5","6","7","8","9"}

Range(s) == {s[i] : i \in DOMAIN s}

LowerChar(c) ==
    IF \E i \in DOMAIN UpperChars : UpperChars[i] = c
    THEN LowerChars[CHOOSE i \in DOMAIN UpperChars : UpperChars[i] = c]
    ELSE c

UpperChar(c) ==
    IF \E i \in DOMAIN LowerChars : LowerChars[i] = c
    THEN UpperChars[CHOOSE i \in DOMAIN LowerChars : LowerChars[i] = c]
    ELSE c

\* str.lower()
Lower(s) == [i \in 1..Len(s) |-> LowerChar(s[i])]

IsSpace(c) == c \in {" ", "\t", "\n"}

\* str.strip()
Strip(s) ==
    LET keep == {i \in 1..Len(s) : ~IsSpace(s[i])}
    IN  IF keep = {} THEN <<>>
        ELSE SubSeq(s, CHOOSE i \in keep : \A j \in keep : i <= j,
                       CHOOSE i \in keep : \A j \in keep : j <= i)

RECURSIVE RemoveNonAlnum(_)
\* re.sub(r'[^a-z0-9]', '', s)
RemoveNonAlnum(s) ==
    IF s = <<>> THEN <<>>
    ELSE IF Head(s) \in Range(LowerChars) \cup Digits
         THEN <<Head(s)>> \o RemoveNonAlnum(Tail(s))
         ELSE RemoveNonAlnum(Tail(s))

----------------------------------------------------------------------------
(* The upstream WHOIS service: what one GET can produce *)

AVAIL_LOWER == <<"a","v","a","i","l","a","b","l","e">>
AVAIL_UPPER == <<"A","V","A","I","L","A","B","L","E">>
UNAVAIL_UPPER == <<"U","N","A","V","A","I","L","A","B","L","E">>
UNKNOWN_UPPER == <<"U","N","K","N","O","W","N">>

\* "available" in every letter case
CaseVariants ==
    {[i \in 1..Len(AVAIL_LOWER) |-> IF m[i] THEN UpperChar(AVAIL_LOWER[i]) ELSE AVAIL_LOWER[i]] :
        m \in [1..Len(AVAIL_LOWER) -> BOOLEAN]}

Status(s) == [kind |-> "status", status |-> s]
NetworkError == [kind |-> "error", status |-> <<>>]   \* client.get raises (timeout, no route)
BadJson == [kind |-> "badjson", status |-> <<>>]      \* r.json() raises, or the body is no object
NoField == [kind |-> "nofield", status |-> <<>>]      \* DomainInfo or domainAvailability absent
NullStatus == [kind |-> "null", status |-> <<>>]      \* domainAvailability is JSON null

UpstreamResponses ==
    {Status(s) : s \in CaseVariants}
    \cup {Status(<<" ">> \o AVAIL_UPPER \o <<" ">>), Status(<<" ">> \o AVAIL_LOWER),
          Status(UNAVAIL_UPPER), Status(Lower(UNAVAIL_UPPER)), Status(UNKNOWN_UPPER), Status(<<>>),
          NetworkError, BadJson, NoField, NullStatus}

\* the responses the poller and the alternative flow are driven with
FewResponses ==
    {Status(AVAIL_UPPER), Status(AVAIL_LOWER), Status(UNAVAIL_UPPER), NetworkError, BadJson}

\* data.get("DomainInfo", {}).get("domainAvailability", "UNKNOWN")
StatusField(r) == IF r.kind = "nofield" THEN UNKNOWN_UPPER ELSE r.status

\* app.py check_domain_availability
AppCheck(r) ==
    IF r.kind \in {"error", "badjson", "null"} THEN FALSE    \* except Exception: return False
    ELSE Lower(Strip(StatusField(r))) = AVAIL_LOWER

\* notifier.py check_domain_availability
NotifierCheck(r) ==
    IF r.kind \in {"error", "badjson"} THEN FALSE            \* except Exception: return False
    ELSE IF r.kind = "null" THEN FALSE                       \* None == "AVAILABLE"
    ELSE StatusField(r) = AVAIL_UPPER

ChkIdle == [pc |-> "start", response |-> NetworkError, app |-> FALSE, notifier |-> FALSE]

\* the same upstream response handed to the checker of the API and to the one of the poller
Query(r) ==
    /\ chk.pc = "start"
    /\ chk' = [pc |-> "done", response |-> r, app |-> AppCheck(r), notifier |-> NotifierCheck(r)]
    /\ UNCHANGED <<notifyVars, pollerVars, gen, alt>>

----------------------------------------------------------------------------
(* POST /notify (app.py subscribe_for_notification) *)

Field(v) == [present |-> TRUE, value |-> v]
Absent == [present |-> FALSE, value |-> <<>>]        \* the key is missing or null

\* (data.get(key) or "")
OrEmpty(f) == IF f.present THEN f.value ELSE <<>>

EXAMPLE_COM == <<"e","x","a","m","p","l","e",".","c","o","m">>
USER_TEST_COM == <<"u","s","e","r","@","t","e","s","t",".","c","o","m">>
NOT_AN_EMAIL == <<"n","o","t","-","a","n","-","e","m","a","i","l">>

\* the request bodies the API is driven with
DomainInputs ==
    {Field(<<" ","E","x","a","m","p","l","e",".","C","O","M"," ">>), Field(<<" ","\t">>), Absent}

EmailInputs ==
    {Field(<<"U","s","e","r","@","T","e","s","t",".","c","o","m"," ">>), Field(NOT_AN_EMAIL),
     Field(<<"a","@","b">>), Field(<<"@","b",".","c">>), Field(<<"a","@","b",".","c","@","d">>),
     Field(<<>>), Absent}

\* re.match(r"[^@]+@[^@]+\.[^@]+", email): a match anchored at the start only
EmailMatches(e) ==
    \E i, j \in 1..Len(e) :
        /\ i > 1 /\ e[i] = "@" /\ \A k \in 1..(i-1) : e[k] # "@"
        /\ j > i + 1 /\ e[j] = "." /\ \A k \in (i+1)..(j-1) : e[k] # "@"
        /\ j < Len(e) /\ e[j+1] # "@"

ReqIdle == [pc |-> "idle", domain |-> Absent, email |-> Absent]
NoResponse == [status |-> 0, store |-> FALSE]

NormDomain == Lower(Strip(OrEmpty(req.domain)))
NormEmail == Lower(Strip(OrEmpty(req.email)))

\* INSERT INTO domain_notifications (domain_name, email, notified) VALUES (%s,%s,False)
NewRow(t, d, e) == [id |-> Len(t) + 1, domain_name |-> d, email |-> e, notified |-> FALSE]

\* the email pattern check forgotten
Accepted_NoPattern(d, e) == d # <<>> /\ e # <<>>

\* whether the body passes the two checks made before the store is touched
Accepted(d, e) == d # <<>> /\ e # <<>> /\ EmailMatches(e)

\* a request arrives: request.get_json()
Receive(d, e) ==
    /\ req.pc = "idle"
    /\ Len(table) < MaxRows
    /\ req' = [pc |-> "handling", domain |-> d, email |-> e]
    /\ UNCHANGED <<table, resp, pollerVars, chk, gen, alt>>

\* the handler; outcome is what the store does: "ok", "connect_fails" (get_db_connection
\* raises: Flask answers 500), "insert_fails" (execute or commit raises: rollback, 500)
Subscribe(outcome) ==
    /\ req.pc = "handling"
    /\ req' = ReqIdle
    /\ IF ~Accepted(NormDomain, NormEmail)
       THEN /\ outcome = "ok"
            /\ resp' = [status |-> 400, store |-> FALSE]
            /\ table' = table
       ELSE IF outcome = "ok"
       THEN /\ resp' = [status |-> 200, store |-> TRUE]
            /\ table' = Append(table, NewRow(table, NormDomain, NormEmail))
       ELSE /\ resp' = [status |-> 500, store |-> TRUE]
            /\ table' = table
    /\ UNCHANGED <<pollerVars, chk, gen, alt>>

----------------------------------------------------------------------------
(* notifier.py: the poller process *)

IsPending(r) == ~r.notified

\* the WHERE clause forgotten: every row is fetched
PendingRows_NoWhere(t) == t

\* SELECT * FROM domain_notifications WHERE notified = 0
PendingRows(t) == SelectSeq(t, IsPending)

\* UPDATE domain_notifications SET notified = 1 WHERE id = %s, once committed
ApplyUpdates(t, ids) ==
    [i \in 1..Len(t) |-> IF t[i].id \in ids THEN [t[i] EXCEPT !.notified = TRUE] ELSE t[i]]

CurrentId == records[idx].id

\* the end of one iteration of "for record in records", and conn.close() after the last
NextRecord ==
    /\ idx' = idx + 1
    /\ pc' = IF idx < Len(records) THEN "check" ELSE "sleep"

\* an exception nothing catches: it leaves check_and_notify and the while True loop
Terminate ==
    /\ pc' = "terminated"
    /\ txn' = {}

\* while True: check_and_notify() -- conn = get_db_connection()
Connect ==
    /\ pc = "sleep"
    /\ cycles < MaxCycles
    /\ cycles' = cycles + 1
    /\ pc' = "connected"
    /\ records' = <<>> /\ idx' = 0 /\ log' = <<>>
    /\ available' = FALSE /\ success' = FALSE
    /\ UNCHANGED <<txn, sent, notifyVars, chk, gen, alt>>

ConnectFails ==
    /\ pc = "sleep"
    /\ cycles < MaxCycles
    /\ cycles' = cycles + 1
    /\ Terminate
    /\ records' = <<>> /\ idx' = 0 /\ log' = <<>>
    /\ available' = FALSE /\ success' = FALSE
    /\ UNCHANGED <<sent, notifyVars, chk, gen, alt>>

\* cursor.execute(SELECT); records = cursor.fetchall(); if not records: close, return
SelectPending ==
    /\ pc = "connected"
    /\ records' = PendingRows(table)
    /\ idx' = 1
    /\ pc' = IF records' = <<>> THEN "sleep" ELSE "check"
    /\ UNCHANGED <<available, success, txn, log, sent, cycles, notifyVars, chk, gen, alt>>

SelectFails ==
    /\ pc = "connected"
    /\ Terminate
    /\ UNCHANGED <<records, idx, available, success, log, sent, cycles, notifyVars, chk, gen, alt>>

\* else: print("still not available")
OnUnavailable ==
    /\ log' = Append(log, "unavailable")
    /\ NextRecord

\* if available:
OnAvailable ==
    /\ pc' = "send"
    /\ UNCHANGED <<idx, log>>

\* available = loop.run_until_complete(check_domain_availability(domain))
CheckRow(r) ==
    /\ pc = "check"
    /\ available' = NotifierCheck(r)
    /\ IF available' THEN OnAvailable ELSE OnUnavailable
    /\ UNCHANGED <<records, success, txn, sent, cycles, notifyVars, chk, gen, alt>>

\* the failed send ends the for loop instead of the iteration (a break for the continue)
OnSendFailure_Break ==
    /\ log' = Append(log, "sendfail")
    /\ idx' = idx + 1
    /\ pc' = "sleep"

\* "if success" forgotten: the row is updated whatever the send returned
OnSendFailure_Update ==
    /\ log' = Append(log, "sendfail")
    /\ pc' = "update"
    /\ idx' = idx

\* send_email_notification returned False: "if success" is skipped
OnSendFailure ==
    /\ log' = Append(log, "sendfail")
    /\ NextRecord

\* send_email_notification returned True
OnSendSuccess ==
    /\ log' = Append(log, "sent")
    /\ pc' = "update"
    /\ idx' = idx

\* success = send_email_notification(email, domain); delivered says what the SMTP server did
SendEmail(delivered) ==
    /\ pc = "send"
    /\ success' = delivered
    /\ sent' = IF delivered THEN [sent EXCEPT ![CurrentId] = @ + 1] ELSE sent
    /\ IF success' THEN OnSendSuccess ELSE OnSendFailure
    /\ UNCHANGED <<records, available, txn, cycles, notifyVars, chk, gen, alt>>

\* cursor.execute(UPDATE ... WHERE id = %s)
UpdateRow ==
    /\ pc = "update"
    /\ txn' = txn \cup {CurrentId}
    /\ pc' = "commit"
    /\ UNCHANGED <<records, idx, available, success, log, sent, cycles, notifyVars, chk, gen, alt>>

UpdateFails ==
    /\ pc = "update"
    /\ Terminate
    /\ UNCHANGED <<records, idx, available, success, log, sent, cycles, notifyVars, chk, gen, alt>>

\* conn.commit() moved after the for loop: the next record starts on an open transaction
CommitRow_Deferred ==
    /\ pc = "commit"
    /\ table' = IF idx < Len(records) THEN table ELSE ApplyUpdates(table, txn)
    /\ txn' = IF idx < Len(records) THEN txn ELSE {}
    /\ NextRecord
    /\ UNCHANGED <<records, available, success, log, sent, cycles, req, resp, chk, gen, alt>>

\* conn.commit(), then the next record
CommitRow ==
    /\ pc = "commit"
    /\ table' = ApplyUpdates(table, txn)
    /\ txn' = {}
    /\ NextRecord
    /\ UNCHANGED <<records, available, success, log, sent, cycles, req, resp, chk, gen, alt>>

CommitFails ==
    /\ pc = "commit"
    /\ Terminate
    /\ UNCHANGED <<records, idx, available, success, log, sent, cycles, notifyVars, chk, gen, alt>>

\* the process is killed (power loss, kill -9): the open transaction is lost
Crash ==
    /\ pc # "terminated"
    /\ Terminate
    /\ UNCHANGED <<records, idx, available, success, log, sent, cycles, notifyVars, chk, gen, alt>>

\* python notifier.py is started again
Restart ==
    /\ pc = "terminated"
    /\ pc' = "sleep"
    /\ UNCHANGED <<records, idx, available, success, txn, log, sent, cycles, notifyVars, chk, gen, alt>>

----------------------------------------------------------------------------
(* app.py: the suggestion generator *)

\* sanitize_word: re.sub(r'[^a-z0-9]', '', w.strip().lower())
SanitizeWord(w) == RemoveNonAlnum(Lower(Strip(w)))

PREFIXES == <<<<"g","e","t">>, <<"t","r","y">>, <<"g","o">>, <<"m","y">>, <<"j","o","i","n">>, <<"t","h","e">>>>
SUFFIXES == <<<<"a","p","p">>, <<"h","q">>, <<"s","i","t","e">>, <<"o","n","l","i","n","e">>, <<"t","e","c","h">>, <<"c","o">>, <<"n","o","w">>>>
TLDS == <<<<".","c","o","m">>, <<".","i","o">>, <<".","c","o">>, <<".","x","y","z">>, <<".","n","e","t">>>>

\* the keywords the generator is driven with: " My-Brand! ", "!?", "Go2"
Keywords == {<<" ","M","y","-","B","r","a","n","d","!"," ">>, <<"!","?">>, <<"G","o","2">>}

\* the set ideas built by generate_domain_ideas; extra is random.choice(SUFFIXES)
IdeaNames(k, extra) ==
    {pre \o k : pre \in Range(PREFIXES)}
    \cup {k \o suf : suf \in Range(SUFFIXES)}
    \cup {k \o <<"-">> \o suf : suf \in Range(SUFFIXES)}
    \cup {k}
    \cup {k \o extra}
    \cup {PREFIXES[i] \o k \o SUFFIXES[j] : i \in 1..3, j \in 1..3}

RECURSIVE SubsetsOfSize(_, _)
SubsetsOfSize(S, n) ==
    IF n = 0 THEN {{}}
    ELSE UNION {{T \cup {x} : T \in SubsetsOfSize(S \ {x}, n - 1)} : x \in S}

\* an off-by-one slice: list(ideas)[:limit + 1]
SliceLength_OneMore(n, limit) == IF limit + 1 < n THEN limit + 1 ELSE n

\* how many elements list(ideas)[:limit] keeps, for limit >= 0
SliceLength(n, limit) == IF limit < n THEN limit ELSE n

\* [f"{name}{random.choice(TLDS)}" for name in ideas], as the bag of the strings returned;
\* tld[name] is the choice made for name
WithTlds(names, tld) ==
    LET made == {n \o tld[n] : n \in names}
    IN  [s \in made |-> Cardinality({n \in names : n \o tld[n] = s})]

GenIdle == [pc |-> "start", k |-> <<>>, limit |-> 0, names |-> {}, result |-> EmptyBag]

\* generate_domain_ideas(keyword, limit) up to the slice: the order of a Python set is
\* arbitrary, so the slice keeps any SliceLength of the names
BuildIdeas(w, limit, extra) ==
    /\ gen.pc = "start"
    /\ LET k == SanitizeWord(w)
           ideas == IdeaNames(k, extra)
       IN  \E kept \in SubsetsOfSize(ideas, SliceLength(Cardinality(ideas), limit)) :
              gen' = [pc |-> "sliced", k |-> k, limit |-> limit, names |-> kept, result |-> EmptyBag]
    /\ UNCHANGED <<notifyVars, pollerVars, chk, alt>>

\* the return statement: one random TLD per kept name
AppendTlds ==
    /\ gen.pc = "sliced"
    /\ \E tld \in [gen.names -> Range(TLDS)] :
          gen' = [gen EXCEPT !.pc = "done", !.result = WithTlds(gen.names, tld)]
    /\ UNCHANGED <<notifyVars, pollerVars, chk, alt>>

----------------------------------------------------------------------------
(* app.py: the alternative-suggestion flow *)

\* tldextract.extract(domain) for "example.com", "example.org", "shop.co.uk"
ExtractResults ==
    {[domain |-> <<"e","x","a","m","p","l","e">>, suffix |-> <<"c","o","m">>],
     [domain |-> <<"e","x","a","m","p","l","e">>, suffix |-> <<"o","r","g">>],
     [domain |-> <<"s","h","o","p">>, suffix |-> <<"c","o",".","u","k">>]}

RECURSIVE OtherTlds(_, _)
\* [... for tld in TLDS if tld != f".{ext.suffix}"]
OtherTlds(tlds, suffix) ==
    IF tlds = <<>> THEN <<>>
    ELSE IF Head(tlds) # <<".">> \o suffix
         THEN <<Head(tlds)>> \o OtherTlds(Tail(tlds), suffix)
         ELSE OtherTlds(Tail(tlds), suffix)

\* alternatives = [f"{base}{tld}" ...] with base = ext.domain.lower()
Alternatives(ext) ==
    LET tlds == OtherTlds(TLDS, ext.suffix)
    IN  [i \in 1..Len(tlds) |-> Lower(ext.domain) \o tlds[i]]

Pending == [kind |-> "pending", status |-> <<>>]

RECURSIVE CollectResults(_, _)
\* for alt, resp in zip(alternatives, responses): an exception is skipped (continue), a
\* body that cannot be read is skipped (except: pass), any other one is appended
CollectResults(alts, resps) ==
    IF alts = <<>> THEN <<>>
    ELSE IF Head(resps).kind \in {"error", "badjson", "null"}
         THEN CollectResults(Tail(alts), Tail(resps))
         ELSE <<[fqdn |-> Head(alts),
                 available |-> Lower(Strip(StatusField(Head(resps)))) = AVAIL_LOWER]>>
              \o CollectResults(Tail(alts), Tail(resps))

\* if not results: results = [{"fqdn": alt, "available": False} for alt in alternatives]
WithFallback(results, alts) ==
    IF results = <<>> THEN [i \in 1..Len(alts) |-> [fqdn |-> alts[i], available |-> FALSE]]
    ELSE results

AltIdle == [pc |-> "start", alternatives |-> <<>>, responses |-> <<>>, results |-> <<>>]

\* suggest_alternatives(domain) up to asyncio.gather: one GET per alternative is started
StartChecks(ext) ==
    /\ alt.pc = "start"
    /\ LET alts == Alternatives(ext)
       IN  alt' = [pc |-> "gather", alternatives |-> alts,
                   responses |-> [i \in 1..Len(alts) |-> Pending], results |-> <<>>]
    /\ UNCHANGED <<notifyVars, pollerVars, chk, gen>>

\* one of the concurrent GETs settles, in any order, with a response or an exception
Settle(i, r) ==
    /\ alt.pc = "gather"
    /\ i \in DOMAIN alt.responses
    /\ alt.responses[i] = Pending
    /\ alt' = [alt EXCEPT !.responses[i] = r]
    /\ UNCHANGED <<notifyVars, pollerVars, chk, gen>>

\* gather(..., return_exceptions=True) returns once every GET has settled
Collect ==
    /\ alt.pc = "gather"
    /\ \A i \in DOMAIN alt.responses : alt.responses[i] # Pending
    /\ alt' = [alt EXCEPT !.pc = "done",
                          !.results = WithFallback(CollectResults(alt.alternatives, alt.responses),
                                                   alt.alternatives)]
    /\ UNCHANGED <<notifyVars, pollerVars, chk, gen>>

----------------------------------------------------------------------------
(* Specifications *)

Init ==
    /\ table = <<>>
    /\ req = ReqIdle
    /\ resp = NoResponse
    /\ pc = "sleep"
    /\ records = <<>>
    /\ idx = 0
    /\ available = FALSE
    /\ success = FALSE
    /\ txn = {}
    /\ log = <<>>
    /\ sent = [i \in 1..MaxRows |-> 0]
    /\ cycles = 0
    /\ chk = ChkIdle
    /\ gen = GenIdle
    /\ alt = AltIdle

ApiNext ==
    \/ \E d \in DomainInputs, e \in EmailInputs : Receive(d, e)
    \/ \E o \in {"ok", "connect_fails", "insert_fails"} : Subscribe(o)

PollerNext ==
    \/ Connect
    \/ ConnectFails
    \/ SelectPending
    \/ SelectFails
    \/ \E r \in FewResponses : CheckRow(r)
    \/ \E d \in BOOLEAN : SendEmail(d)
    \/ UpdateRow
    \/ UpdateFails
    \/ CommitRow
    \/ CommitFails

Next == ApiNext \/ PollerNext

\* the API and one poller process; an uncaught exception ends the poller for good
Spec == Init /\ [][Next]_vars

NextRestart == Next \/ Crash \/ Restart

\* the same, with the poller killed at any point and started again
SpecRestart == Init /\ [][NextRestart]_vars

NextGen ==
    \/ \E w \in Keywords, limit \in 0..MaxLimit, extra \in Range(SUFFIXES) : BuildIdeas(w, limit, extra)
    \/ AppendTlds

\* generate_domain_ideas on every keyword and limit of the bounds
SpecGen == Init /\ [][NextGen]_vars

NextAlt ==
    \/ \E ext \in ExtractResults : StartChecks(ext)
    \/ \E i \in 1..Len(TLDS), r \in FewResponses : Settle(i, r)
    \/ Collect

\* suggest_alternatives on every parsed domain and every outcome of its GETs
SpecAlt == Init /\ [][NextAlt]_vars

NextCheck == \E r \in UpstreamResponses : Query(r)

\* both availability checkers on every upstream response
SpecCheck == Init /\ [][NextCheck]_vars

----------------------------------------------------------------------------
(* Claims about the notification table and the poller *)

Rows == 1..Len(table)
Processed == 1..Len(log)
CycleEnded == pc = "sleep" /\ cycles > 0

C1_Step ==
    /\ Len(table') >= Len(table)
    /\ \A i \in Rows :
        /\ table'[i].id = table[i].id
        /\ table'[i].domain_name = table[i].domain_name
        /\ table'[i].email = table[i].email
        /\ table[i].notified => table'[i].notified
        /\ (~table[i].notified /\ table'[i].notified) =>
              /\ pc = "commit" /\ available /\ success
              /\ table[i].id = CurrentId
    /\ \A i \in (Len(table) + 1)..Len(table') : ~table'[i].notified

\* C1: in every step a row keeps its id, domain and email and is never deleted; a new
\* row starts with notified = FALSE; notified never goes back to FALSE; and it turns
\* TRUE only in the poller's commit for the current record, after the checker answered
\* available and the send returned success. Every other row is left as it was.
C1_NotifiedOnlyAfterAvailableAndSent == [][C1_Step]_vars

\* a cycle over two rows: the first answered unavailable and stayed pending, the second
\* was available, its email sent, and it is notified
C1_Witness ==
    /\ CycleEnded /\ Len(records) = 2 /\ log = <<"unavailable", "sent">>
    /\ ~table[records[1].id].notified /\ table[records[2].id].notified

\* C2: with one poller, no row gets more than one successful email; a notified row got
\* exactly one; a row whose send succeeded in a cycle is notified when the cycle ends;
\* and a row that was notified before a cycle started is not among the rows it fetched.
C2_AtMostOneEmail ==
    /\ \A i \in Rows : sent[table[i].id] <= 1 /\ (table[i].notified => sent[table[i].id] = 1)
    /\ CycleEnded => \A j \in Processed : log[j] = "sent" => table[records[j].id].notified
    /\ \A j \in DOMAIN records :
          table[records[j].id].notified => (j \in Processed /\ log[j] = "sent")

\* the second cycle finds nothing to fetch: the row notified by the first cycle is not
\* selected, and its one email stays the only one
C2_Witness ==
    /\ cycles = 2 /\ CycleEnded /\ records = <<>>
    /\ Len(table) = 1 /\ table[1].notified /\ sent[1] = 1

C3_Inv ==
    /\ pc \in {"check", "send"} => Len(log) = idx - 1
    /\ CycleEnded => Len(log) = Len(records)
    /\ \A j \in Processed :
          /\ log[j] \in {"unavailable", "sendfail"} => ~table[records[j].id].notified
          /\ (log[j] = "sent" /\ (j < idx \/ CycleEnded)) => table[records[j].id].notified

C3_Step ==
    (pc \in {"check", "send"} /\ pc' \notin {"check", "send"}) =>
        /\ pc' \in {"update", "sleep"}
        /\ pc' = "sleep" => idx = Len(records)

\* C3: a failed check or a failed send leaves its row pending and ends only that row's
\* iteration: the step goes on to the next record (or, after the last one, to the end of
\* the cycle), every record fetched is examined before the cycle ends, and each later
\* record that is available and whose send succeeds is notified.
C3_FailureIsolated == []C3_Inv /\ [][C3_Step]_vars

\* two pending rows: the first one's send fails, the second one's succeeds
C3_Witness ==
    /\ CycleEnded /\ Len(records) = 2 /\ log = <<"sendfail", "sent">>
    /\ ~table[records[1].id].notified /\ table[records[2].id].notified

\* C4: a persistence failure on the poller path ends at most the current cycle: the
\* poller process is never terminated.
C4_PollerSurvivesStoreFailure == pc # "terminated"

C7_Step ==
    (req.pc = "handling" /\ req'.pc = "idle") =>
        LET d == Lower(Strip(OrEmpty(req.domain)))
            e == Lower(Strip(OrEmpty(req.email)))
        IN  IF d = <<>> \/ e = <<>> \/ ~EmailMatches(e)
            THEN resp'.status = 400 /\ ~resp'.store /\ table' = table
            ELSE \/ /\ resp'.status = 200
                    /\ Len(table') = Len(table) + 1
                    /\ SubSeq(table', 1, Len(table)) = table
                    /\ table'[Len(table')].domain_name = d
                    /\ table'[Len(table')].email = e
                    /\ ~table'[Len(table')].notified
                 \/ /\ resp'.status = 500
                    /\ table' = table

\* C7: the handler of POST /notify. A body whose domain or email is empty after
\* strip().lower(), or whose email does not match the pattern, is answered 400 without
\* the store being touched and the table is unchanged; any other body either adds exactly
\* one row (its domain and email normalised, notified FALSE) after the unchanged
\* existing rows and is answered 200, or, when the store fails, is answered 500 and the
\* table is unchanged.
C7_NotifyInsert == [][C7_Step]_vars

\* "not-an-email" was refused (the last answer is 400) after example.com / user@test.com
\* had been stored as one pending row
C7_Witness ==
    /\ resp.status = 400
    /\ Len(table) = 1
    /\ table[1].domain_name = EXAMPLE_COM /\ table[1].email = USER_TEST_COM
    /\ ~table[1].notified

C9_Inv ==
    /\ \A j \in Processed : (log[j] = "sent" /\ j < idx) => table[records[j].id].notified
    /\ pc = "check" => txn = {}

C9_Step ==
    /\ \A i \in Rows : table[i].notified => sent'[table[i].id] = sent[table[i].id]
    /\ records' # records => \A j \in DOMAIN records' : ~table[records'[j].id].notified

\* C9: when the for loop has moved past a record whose send succeeded, its notified = 1
\* is committed, and nothing is left uncommitted when the next record starts; a row
\* that is committed notified gets no further email and is not fetched again, also
\* after the process was killed at any point and started again.
C9_CommittedBeforeNextRow == []C9_Inv /\ [][C9_Step]_vars

\* the poller was killed after it finished the first of two records and was started
\* again: the first row is committed notified, with its one email
C9_Witness ==
    /\ pc = "sleep" /\ Len(records) = 2 /\ idx = 2 /\ log = <<"sent">>
    /\ table[records[1].id].notified /\ sent[records[1].id] = 1

\* C10: the poller runs cycles for ever, so a row that is still pending always has a
\* live poller that will examine it again in the next cycle.
C10_PendingRowHasLivePoller ==
    (\E i \in Rows : ~table[i].notified) => pc # "terminated"

----------------------------------------------------------------------------
(* Claims about the availability checkers *)

\* C6: both checkers report an upstream status that is "available" in any letter case
\* as available, report every other answer (another status, a timeout, a malformed
\* body) as not available, and so agree on every upstream response.
C6_CheckersAgree ==
    chk.pc = "done" =>
        /\ chk.app = chk.notifier
        /\ (chk.response.kind = "status" /\ Lower(chk.response.status) = AVAIL_LOWER)
              => (chk.app /\ chk.notifier)
        /\ (chk.response.kind # "status"
              \/ Lower(Strip(chk.response.status)) # AVAIL_LOWER)
              => (~chk.app /\ ~chk.notifier)

----------------------------------------------------------------------------
(* Claims about the suggestion generator *)

EndsWith(s, t) == Len(s) >= Len(t) /\ SubSeq(s, Len(s) - Len(t) + 1, Len(s)) = t

\* the returned strings that are keyword + suf + some TLD
Combination(suf) ==
    {e \in BagToSet(gen.result) : \E t \in Range(TLDS) : e = gen.k \o suf \o t}

C8_Common ==
    /\ BagCardinality(gen.result) <= gen.limit
    /\ \A e \in BagToSet(gen.result) :
          /\ e # <<>>
          /\ \E t \in Range(TLDS) : EndsWith(e, t)
          /\ CopiesIn(e, gen.result) = 1

\* C8, as amended: generate_domain_ideas(k, limit) returns at most limit entries, each
\* non-empty and ending in a configured TLD, no two of them the same string, and each
\* keyword-plus-suffix combination at most once.
C8_GeneratedIdeas ==
    gen.pc = "done" =>
        /\ C8_Common
        /\ \A suf \in Range(SUFFIXES) : Cardinality(Combination(suf)) <= 1

\* C8, as claimed: ... and each keyword-plus-suffix combination exactly once.
C8_EachCombinationOnce ==
    gen.pc = "done" =>
        /\ C8_Common
        /\ \A suf \in Range(SUFFIXES) : Cardinality(Combination(suf)) = 1

\* limit = 2 on "Go2": two strings came back, "go2app" under some TLD among them
C8_Witness ==
    /\ gen.pc = "done" /\ gen.limit = 2 /\ gen.k = <<"g","o","2">>
    /\ BagCardinality(gen.result) = 2
    /\ Combination(SUFFIXES[1]) # {}

----------------------------------------------------------------------------
(* Claims about the alternative-suggestion flow *)

\* C5: the list returned has exactly one entry per candidate, in order; a candidate
\* whose GET threw or whose body could not be read is marked not available, the others
\* carry the availability their response states.
C5_EveryCandidateListed ==
    alt.pc = "done" =>
        /\ Len(alt.results) = Len(alt.alternatives)
        /\ \A i \in DOMAIN alt.results :
              /\ alt.results[i].fqdn = alt.alternatives[i]
              /\ alt.results[i].available = AppCheck(alt.responses[i])

====
